---- MODULE Spec2Model ----
(***************************************************************************)
(* Model of project/manager_frontend/views/roms.py: the system list view,  *)
(* the rom list view with its upload and delete forms, and the JSON upload *)
(* view.  File names, system keys and messages are Python strings,         *)
(* modelled as sequences of one-character strings compared by code point.  *)
(***************************************************************************)
EXTENDS Integers, Sequences, FiniteSets, TLC

VARIABLES
    root,                     \* entries of RECALBOX_ROMS_PATH: name -> "none" | "dir" | "file"
    roms,                     \* content of each system directory: key -> (name -> entry)
    RECALBOX_MANIFEST,        \* settings.RECALBOX_MANIFEST, a process-wide dict
    RECALBOX_SYSTEM_DEFAULT,  \* settings.RECALBOX_SYSTEM_DEFAULT, a process-wide dict
    pc,                       \* position of each request being handled
    view,                     \* the view class serving the request: "html" | "json"
    system_key,               \* self.system_key of the request's view object
    system_manifest,          \* self.system_manifest: a REFERENCE to a settings dict
    response,                 \* what the request has produced
    form_errors,              \* forms handed to RomUploadJsonView.form_invalid
    json_result               \* the response form_invalid built from form_errors

vars == <<root, roms, RECALBOX_MANIFEST, RECALBOX_SYSTEM_DEFAULT, pc, view,
          system_key, system_manifest, response, form_errors, json_result>>

----------------------------------------------------------------------------
(* Bounds *)

NumRequests == 2      \* request slots (worker threads of the server)
MaxSize == 2          \* file sizes range over 1..MaxSize bytes

Requests == 1..NumRequests
Sizes == 1..MaxSize

----------------------------------------------------------------------------
(* Python strings *)

ord == ("." :> 46) @@ ("E" :> 69) @@ ("N" :> 78) @@ ("S" :> 83) @@
       ("a" :> 97) @@ ("b" :> 98) @@ ("c" :> 99) @@ ("d" :> 100) @@
       ("e" :> 101) @@ ("g" :> 103) @@ ("h" :> 104) @@ ("m" :> 109) @@
       ("n" :> 110) @@ ("s" :> 115) @@ ("z" :> 122) @@ ("\n" :> 10)

\* str.__lt__: lexicographic on code points, a proper prefix is smaller
RECURSIVE str_lt(_, _)
str_lt(a, b) ==
    IF b = <<>> THEN FALSE
    ELSE IF a = <<>> THEN TRUE
    ELSE IF a[1] = b[1] THEN str_lt(Tail(a), Tail(b))
    ELSE ord[a[1]] < ord[b[1]]

\* item.startswith('.')
startswith(s, c) == Len(s) > 0 /\ s[1] = c

\* sorted(pairs, key=itemgetter(0)): a stable sort on the first component
RECURSIVE insort(_, _)
insort(x, s) ==
    IF s = <<>> THEN <<x>>
    ELSE IF str_lt(x[1], s[1][1]) THEN <<x>> \o s
    ELSE <<s[1]>> \o insort(x, Tail(s))

RECURSIVE sorted_by_item0(_)
sorted_by_item0(s) ==
    IF s = <<>> THEN <<>>
    ELSE insort(s[Len(s)], sorted_by_item0(SubSeq(s, 1, Len(s) - 1)))

\* every order in which os.listdir may return the names of a directory
RECURSIVE Orders(_)
Orders(S) ==
    IF S = {} THEN {<<>>}
    ELSE UNION {{<<x>> \o p : p \in Orders(S \ {x})} : x \in S}

----------------------------------------------------------------------------
(* Names *)

k_md   == <<"m", "d">>
k_nes  == <<"n", "e", "s">>
k_b    == <<"b">>
k_c    == <<"c">>
k_hid  == <<".", "h">>

n_Sega == <<"S", "e", "g", "a">>
n_NES  == <<"N", "E", "S">>

f_as   == <<"a", ".", "s">>
f_bz   == <<"b", ".", "z">>
f_hid  == <<".", "h", ".", "s">>
f_dir  == <<"d">>

SystemKeys == {k_md, k_nes, k_b, k_c, k_hid}
EntryNames == {f_as, f_bz, f_hid, f_dir}
UploadNames == {f_as, f_bz, f_hid}

----------------------------------------------------------------------------
(* Filesystem *)

NoEntry == [kind |-> "none", size |-> 0]
DirEntry == [kind |-> "dir", size |-> 0]
FileEntry(n) == [kind |-> "file", size |-> n]
EmptyDir == [name \in EntryNames |-> NoEntry]

\* os.listdir: the names present, in an order the platform chooses
listdir(d) == {name \in DOMAIN d : d[name].kind # "none"}
\* os.path.isfile / os.path.getsize on a path inside a directory
isfile(d, name) == name \in DOMAIN d /\ d[name].kind = "file"
getsize(d, name) == d[name].size
\* os.path.exists / os.path.isdir on a path inside the ROMs root
path_exists(rt, name) == name \in DOMAIN rt /\ rt[name] # "none"
path_isdir(rt, name) == name \in DOMAIN rt /\ rt[name] = "dir"

----------------------------------------------------------------------------
(* Settings *)

MANIFEST0 ==
    (k_md  :> [key |-> k_md,  name |-> n_Sega, extensions |-> {<<"s">>}]) @@
    (k_nes :> [key |-> k_nes, name |-> n_NES,  extensions |-> {<<"s">>}])

DEFAULT0 == [key |-> <<>>, name |-> <<>>, extensions |-> {}]

----------------------------------------------------------------------------
(* SystemsListView *)

RECURSIVE system_dirs(_, _)
system_dirs(rt, items) ==
    IF items = <<>> THEN <<>>
    ELSE LET item == Head(items)
             rest == system_dirs(rt, Tail(items))
         IN IF path_isdir(rt, item) /\ ~startswith(item, ".")
            THEN IF item \in DOMAIN RECALBOX_MANIFEST
                 THEN <<<<item, RECALBOX_MANIFEST[item].name>>>> \o rest
                 ELSE <<<<item, item>>>> \o rest
            ELSE rest

\* the list returned as built, the final sort forgotten
get_system_list_unsorted(rt, items) == system_dirs(rt, items)

get_system_list(rt, items) == sorted_by_item0(system_dirs(rt, items))

----------------------------------------------------------------------------
(* RomListView *)

\* the size taken of the directory path instead of the file's
RECURSIVE rom_list_dirsize(_, _)
rom_list_dirsize(d, items) ==
    IF items = <<>> THEN <<>>
    ELSE LET item == Head(items)
             rest == rom_list_dirsize(d, Tail(items))
         IN IF isfile(d, item) /\ ~startswith(item, ".")
            THEN <<<<item, 0>>>> \o rest
            ELSE rest

RECURSIVE rom_list(_, _)
rom_list(d, items) ==
    IF items = <<>> THEN <<>>
    ELSE LET item == Head(items)
             rest == rom_list(d, Tail(items))
         IN IF isfile(d, item) /\ ~startswith(item, ".")
            THEN <<<<item, getsize(d, item)>>>> \o rest
            ELSE rest

\* every regular file listed, hidden or not
RECURSIVE rom_list_hidden(_, _)
rom_list_hidden(d, items) ==
    IF items = <<>> THEN <<>>
    ELSE LET item == Head(items)
             rest == rom_list_hidden(d, Tail(items))
         IN IF isfile(d, item)
            THEN <<<<item, getsize(d, item)>>>> \o rest
            ELSE rest

get_rom_choices_hidden(d, items) == sorted_by_item0(rom_list_hidden(d, items))

get_rom_choices(d, items) == sorted_by_item0(rom_list(d, items))


\* the test on the hidden marker left out
NotFound_hidden_served(rt, key) ==
    \/ ~path_exists(rt, key)
    \/ ~path_isdir(rt, key)

\* line 67: the path is missing, is not a directory, or the key is hidden
NotFound(rt, key) ==
    \/ ~path_exists(rt, key)
    \/ ~path_isdir(rt, key)
    \/ startswith(key, ".")

\* only 'key' written into the default dict
default_manifest_update_key_only(default_manifest, key) ==
    [default_manifest EXCEPT !.key = key]

\* lines 70-74: default_manifest IS settings.RECALBOX_SYSTEM_DEFAULT (no copy
\* is taken), so update() writes into the process-wide dict
default_manifest_update(default_manifest, key) ==
    [default_manifest EXCEPT !.key = key, !.name = key]

\* line 76: dict.get returns a reference, to the manifest's entry or to the
\* default dict
manifest_get(manifest, key) ==
    IF key \in DOMAIN manifest THEN "manifest" ELSE "default"

\* the dict a reference designates, read at the moment of use
deref(ref, key, manifest, default_manifest) ==
    IF ref = "manifest" THEN manifest[key] ELSE default_manifest

entry(r) == deref(system_manifest[r], system_key[r],
                  RECALBOX_MANIFEST, RECALBOX_SYSTEM_DEFAULT)

\* the request as submitted, kept with the response it produced
NoFile == [name |-> <<>>, size |-> 0]
NoRequest == [method |-> "", form |-> "none", file |-> NoFile, selected |-> {}]
GetRequest == [method |-> "GET", form |-> "none", file |-> NoFile, selected |-> {}]
UploadRequest(file) ==
    [method |-> "POST", form |-> "upload", file |-> file, selected |-> {}]
DeleteRequest(selected) ==
    [method |-> "POST", form |-> "delete", file |-> NoFile, selected |-> selected]

NoErrors == [field \in {} |-> <<>>]
NoContext == [system |-> <<>>, system_name |-> <<>>,
              system_manifest |-> DEFAULT0, total_roms |-> 0]
NoBody == [key |-> "", value |-> <<>>]

HtmlHeaders == [content_type |-> "text/html", pragma |-> "", cache_control |-> ""]

HttpResponse(kind, status, request, context, romchoices, errors, body, messages) ==
    [kind |-> kind, status |-> status, request |-> request, context |-> context,
     romchoices |-> romchoices, systems_list |-> <<>>,
     errors |-> errors, body |-> body, messages |-> messages,
     headers |-> HtmlHeaders]

NoResponse ==
    HttpResponse("none", 0, NoRequest, NoContext, <<>>,
                 [upload |-> NoErrors, delete |-> NoErrors], NoBody, {})
\* raise Http404
Http404 ==
    HttpResponse("notfound", 404, NoRequest, NoContext, <<>>,
                 [upload |-> NoErrors, delete |-> NoErrors], NoBody, {})

\* URL dispatch: a view object is built for the request, self.kwargs['system']
\* is the key of the URL
Receive(r, v, key) ==
    /\ pc[r] = "idle"
    /\ pc' = [pc EXCEPT ![r] = "start"]
    /\ view' = [view EXCEPT ![r] = v]
    /\ system_key' = [system_key EXCEPT ![r] = key]
    /\ UNCHANGED <<root, roms, RECALBOX_MANIFEST, RECALBOX_SYSTEM_DEFAULT,
                   system_manifest, response, form_errors, json_result>>

init_system(r) ==
    /\ pc[r] = "start"
    /\ IF NotFound(root, system_key[r])
       THEN /\ pc' = [pc EXCEPT ![r] = "done"]
            /\ response' = [response EXCEPT ![r] = Http404]
            /\ UNCHANGED <<RECALBOX_SYSTEM_DEFAULT, system_manifest>>
       ELSE /\ RECALBOX_SYSTEM_DEFAULT' =
                  default_manifest_update(RECALBOX_SYSTEM_DEFAULT, system_key[r])
            /\ system_manifest' = [system_manifest EXCEPT ![r] =
                  manifest_get(RECALBOX_MANIFEST, system_key[r])]
            /\ pc' = [pc EXCEPT ![r] = "inited"]
            /\ UNCHANGED response
    /\ UNCHANGED <<root, roms, RECALBOX_MANIFEST, view, system_key,
                   form_errors, json_result>>

\* lines 87-96
get_context_data(r, items) ==
    [system |-> system_key[r],
     system_name |-> entry(r).name,
     system_manifest |-> entry(r),
     total_roms |-> Len(get_rom_choices(roms[system_key[r]], items))]

\* lines 101-106
get_upload_form_kwargs(r) ==
    [system_manifest |-> entry(r), system |-> system_key[r]]

\* every entry of the directory offered as a choice
get_delete_form_kwargs_all(r, items) ==
    [romchoices |-> [i \in 1..Len(items) |->
                        <<items[i], getsize(roms[system_key[r]], items[i])>>],
     system |-> system_key[r]]

\* lines 108-113
get_delete_form_kwargs(r, items) ==
    [romchoices |-> get_rom_choices(roms[system_key[r]], items),
     system |-> system_key[r]]


\* line 60, inherited unchanged by RomUploadJsonView (line 138)
enabled_forms(v) == <<"upload", "delete">>

----------------------------------------------------------------------------
(* project.manager_frontend.forms.roms and project.utils.views are not part *)
(* of the sources at hand: the forms and the multi-form dispatch follow the *)
(* design document (sections 4.4, 4.5, 4.6).                                *)

m_required  == <<"r", "e", "q">>
m_extension == <<"e", "x", "t">>
m_exists    == <<"d", "u", "p">>
m_choice    == <<"c", "h", "o">>

Files == {[name |-> n, size |-> s] : n \in UploadNames, s \in Sizes}

\* os.path.splitext: the text after the last dot, leading dots excepted
splitext_ext(name) ==
    LET dots == {i \in 1..Len(name) : name[i] = "."}
        last == IF dots = {} THEN 0
                ELSE CHOOSE i \in dots : \A j \in dots : j <= i
    IN IF last = 0 \/ (\A j \in 1..(last - 1) : name[j] = ".")
       THEN <<>>
       ELSE SubSeq(name, last + 1, Len(name))

\* 4.4: (a) a file is attached, (b) its extension is allowed when the
\* manifest restricts extensions, (c) a name collision is rejected or the
\* file is overwritten (the policy is left to the implementation)
RomUploadForm_errors(kwargs, d, file, policy) ==
    IF file = NoFile THEN [field \in {"rom"} |-> <<m_required>>]
    ELSE IF /\ kwargs.system_manifest.extensions # {}
            /\ splitext_ext(file.name) \notin kwargs.system_manifest.extensions
         THEN [field \in {"rom"} |-> <<m_extension>>]
    ELSE IF d[file.name].kind # "none" /\ policy = "reject"
         THEN [field \in {"rom"} |-> <<m_exists>>]
    ELSE NoErrors

\* 4.4: the file is written under its original file name
RomUploadForm_save(d, file) == [d EXCEPT ![file.name] = FileEntry(file.size)]

\* 4.5: every selected name must be one of the rom choices
RomDeleteForm_errors(kwargs, selected) ==
    LET names == {kwargs.romchoices[i][1] : i \in 1..Len(kwargs.romchoices)}
    IN IF \E name \in selected : name \notin names
       THEN [field \in {"roms"} |-> <<m_choice>>]
       ELSE NoErrors

\* 4.5: each selected file is removed; the files removed are returned
RomDeleteForm_deleted(d, selected) == {name \in selected : d[name].kind # "none"}
RomDeleteForm_save(d, selected) ==
    [name \in DOMAIN d |->
        IF name \in RomDeleteForm_deleted(d, selected) THEN NoEntry ELSE d[name]]


----------------------------------------------------------------------------
(* Form callbacks of RomListView and RomUploadJsonView *)

\* separator.join(list)
RECURSIVE join(_, _)
join(sep, list) ==
    IF list = <<>> THEN <<>>
    ELSE IF Len(list) = 1 THEN list[1]
    ELSE list[1] \o sep \o join(sep, Tail(list))

\* 'Unknow error occured' (line 159), abbreviated
m_unknown == <<"U", "n", "k">>

\* lines 181-200
json_response(backend, status) ==
    [HttpResponse("json", status, NoRequest, NoContext, <<>>,
                  [upload |-> NoErrors, delete |-> NoErrors], backend, {})
     EXCEPT !.headers =
        [content_type |-> "application/json; charset=utf-8",
         pragma |-> "no-cache",
         cache_control |-> "no-cache, no-store, must-revalidate, max-age=0"]]

\* only the first message of the field kept
RECURSIVE form_invalid_msg_first(_, _)
form_invalid_msg_first(args, error_msg) ==
    IF args = <<>> THEN error_msg
    ELSE LET form == Head(args)
             errs == form.errors
         IN form_invalid_msg_first(Tail(args),
              IF form.form_key = "upload" /\ "rom" \in DOMAIN errs
              THEN IF Len(errs["rom"]) >= 1 THEN errs["rom"][1] ELSE error_msg
              ELSE error_msg)

\* lines 160-174: the loop over the forms
RECURSIVE form_invalid_msg(_, _)
form_invalid_msg(args, error_msg) ==
    IF args = <<>> THEN error_msg
    ELSE LET form == Head(args)
             errs == form.errors
         IN form_invalid_msg(Tail(args),
              IF form.form_key = "upload" /\ "rom" \in DOMAIN errs
              THEN LET error_context == errs["rom"]
                   IN IF Len(error_context) > 1
                      THEN join(<<"\n">>, error_context)
                      ELSE IF Len(error_context) = 1
                           THEN join(<<>>, error_context)
                           ELSE error_msg
              ELSE error_msg)

\* lines 152-179: RomUploadJsonView.form_invalid(*args)
form_invalid(args) ==
    LET error_msg == form_invalid_msg(args, <<>>)
    IN json_response([key |-> "error",
                      value |-> IF error_msg # <<>> THEN error_msg ELSE m_unknown],
                     400)

\* lines 115-119: RomListView.upload_form_valid
upload_form_valid(d, file) ==
    [dir |-> RomUploadForm_save(d, file),
     messages |-> {[text |-> "File has been uploaded", files |-> {file.name}]}]

\* lines 144-150: RomUploadJsonView.upload_form_valid
json_upload_form_valid(d, file) ==
    [dir |-> RomUploadForm_save(d, file),
     response |-> json_response([key |-> "status", value |-> <<"success">>], 200)]

\* lines 121-126: delete_form_valid, the same for both views
delete_form_valid(d, selected) ==
    LET deleted_files == RomDeleteForm_deleted(d, selected)
    IN [dir |-> RomDeleteForm_save(d, selected),
        messages |-> IF deleted_files # {}
                     THEN {[text |-> "Deleted file(s)", files |-> deleted_files]}
                     ELSE {}]

----------------------------------------------------------------------------
(* Requests *)

Views == {"html", "json"}
Policies == {"reject", "overwrite"}

in_forms(key, v) == \E i \in 1..Len(enabled_forms(v)) : enabled_forms(v)[i] = key

\* the page of the rom list, with both forms and the context of lines 87-96;
\* the directory does not change between the listings made for one request,
\* so os.listdir returns its names in the same order each time
render(r, request, romchoices, errors, items) ==
    HttpResponse("page", 200, request, get_context_data(r, items), romchoices,
                 errors, NoBody, {})

\* lines 98-99 and the redirect after a valid form
redirect(request, messages) ==
    HttpResponse("redirect", 302, request, NoContext, <<>>,
                 [upload |-> NoErrors, delete |-> NoErrors], NoBody, messages)

\* lines 128-130: get() after init_system: both forms unbound, page rendered
Get(r) ==
    /\ pc[r] = "inited"
    /\ \E items \in Orders(listdir(roms[system_key[r]])) :
          response' = [response EXCEPT ![r] =
              render(r, GetRequest, get_delete_form_kwargs(r, items).romchoices,
                     [upload |-> NoErrors, delete |-> NoErrors], items)]
    /\ pc' = [pc EXCEPT ![r] = "done"]
    /\ UNCHANGED <<root, roms, RECALBOX_MANIFEST, RECALBOX_SYSTEM_DEFAULT, view,
                   system_key, system_manifest, form_errors, json_result>>

\* lines 132-134: post() after init_system, the upload section submitted
PostUpload(r, file, policy) ==
    /\ pc[r] = "inited"
    /\ in_forms("upload", view[r])
    /\ \E items \in Orders(listdir(roms[system_key[r]])) :
         LET d == roms[system_key[r]]
             request == UploadRequest(file)
             delete_kwargs == get_delete_form_kwargs(r, items)
             errs == RomUploadForm_errors(get_upload_form_kwargs(r), d, file, policy)
             errors == [upload |-> errs, delete |-> NoErrors]
             forms == <<[form_key |-> "upload", errors |-> errs],
                        [form_key |-> "delete", errors |-> NoErrors]>>
         IN IF DOMAIN errs = {}
            THEN IF view[r] = "json"
                 THEN /\ roms' = [roms EXCEPT ![system_key[r]] =
                                     json_upload_form_valid(d, file).dir]
                      /\ response' = [response EXCEPT ![r] =
                            [json_upload_form_valid(d, file).response
                             EXCEPT !.request = request]]
                 ELSE /\ roms' = [roms EXCEPT ![system_key[r]] =
                                     upload_form_valid(d, file).dir]
                      /\ response' = [response EXCEPT ![r] =
                            redirect(request, upload_form_valid(d, file).messages)]
            ELSE /\ roms' = roms
                 /\ response' = [response EXCEPT ![r] =
                       IF view[r] = "json"
                       THEN [form_invalid(forms) EXCEPT !.request = request]
                       ELSE render(r, request, delete_kwargs.romchoices, errors, items)]
    /\ pc' = [pc EXCEPT ![r] = "done"]
    /\ UNCHANGED <<root, RECALBOX_MANIFEST, RECALBOX_SYSTEM_DEFAULT, view,
                   system_key, system_manifest, form_errors, json_result>>

\* lines 132-134: post() after init_system, the delete section submitted
PostDelete(r, selected) ==
    /\ pc[r] = "inited"
    /\ in_forms("delete", view[r])
    /\ \E items \in Orders(listdir(roms[system_key[r]])) :
         LET d == roms[system_key[r]]
             request == DeleteRequest(selected)
             delete_kwargs == get_delete_form_kwargs(r, items)
             errs == RomDeleteForm_errors(delete_kwargs, selected)
             errors == [upload |-> NoErrors, delete |-> errs]
             forms == <<[form_key |-> "upload", errors |-> NoErrors],
                        [form_key |-> "delete", errors |-> errs]>>
         IN IF DOMAIN errs = {}
            THEN /\ roms' = [roms EXCEPT ![system_key[r]] =
                                delete_form_valid(d, selected).dir]
                 /\ response' = [response EXCEPT ![r] =
                       redirect(request, delete_form_valid(d, selected).messages)]
            ELSE /\ roms' = roms
                 /\ response' = [response EXCEPT ![r] =
                       IF view[r] = "json"
                       THEN [form_invalid(forms) EXCEPT !.request = request]
                       ELSE render(r, request, delete_kwargs.romchoices, errors, items)]
    /\ pc' = [pc EXCEPT ![r] = "done"]
    /\ UNCHANGED <<root, RECALBOX_MANIFEST, RECALBOX_SYSTEM_DEFAULT, view,
                   system_key, system_manifest, form_errors, json_result>>

\* lines 39-45: SystemsListView, GET of the system list
SystemsListGet(r) ==
    /\ pc[r] = "idle"
    /\ \E items \in Orders({name \in DOMAIN root : root[name] # "none"}) :
          response' = [response EXCEPT ![r] =
              [HttpResponse("systems", 200, GetRequest, NoContext, <<>>,
                            [upload |-> NoErrors, delete |-> NoErrors], NoBody, {})
               EXCEPT !.systems_list = get_system_list(root, items)]]
    /\ pc' = [pc EXCEPT ![r] = "done"]
    /\ view' = [view EXCEPT ![r] = "systems"]
    /\ UNCHANGED <<root, roms, RECALBOX_MANIFEST, RECALBOX_SYSTEM_DEFAULT,
                   system_key, system_manifest, form_errors, json_result>>

\* the response is sent and the view object of the request is dropped
Finish(r) ==
    /\ pc[r] = "done"
    /\ pc' = [pc EXCEPT ![r] = "idle"]
    /\ view' = [view EXCEPT ![r] = "none"]
    /\ system_key' = [system_key EXCEPT ![r] = <<>>]
    /\ system_manifest' = [system_manifest EXCEPT ![r] = "none"]
    /\ response' = [response EXCEPT ![r] = NoResponse]
    /\ UNCHANGED <<root, roms, RECALBOX_MANIFEST, RECALBOX_SYSTEM_DEFAULT,
                   form_errors, json_result>>


----------------------------------------------------------------------------
(* Initial states and specifications *)

Kinds == {"none", "dir", "file"}
Entries == {NoEntry, DirEntry} \cup {FileEntry(n) : n \in Sizes}

\* a ROMs root with a known system, an unknown one, a hidden directory, a
\* regular file, and a manifest key that has no directory
MainRoot ==
    (k_md :> "dir") @@ (k_nes :> "none") @@ (k_b :> "dir") @@
    (k_c :> "file") @@ (k_hid :> "dir")

MainRoms ==
    [key \in SystemKeys |->
        IF key = k_md
        THEN [EmptyDir EXCEPT ![f_as] = FileEntry(1), ![f_dir] = DirEntry]
        ELSE IF key = k_hid THEN [EmptyDir EXCEPT ![f_as] = FileEntry(1)]
        ELSE EmptyDir]

InitSettings ==
    /\ RECALBOX_MANIFEST = MANIFEST0
    /\ RECALBOX_SYSTEM_DEFAULT = DEFAULT0

InitRequests ==
    /\ pc = [r \in Requests |-> "idle"]
    /\ view = [r \in Requests |-> "none"]
    /\ system_key = [r \in Requests |-> <<>>]
    /\ system_manifest = [r \in Requests |-> "none"]
    /\ response = [r \in Requests |-> NoResponse]

Init ==
    /\ root = MainRoot
    /\ roms = MainRoms
    /\ InitSettings
    /\ InitRequests
    /\ form_errors = <<>>
    /\ json_result = NoResponse

\* one request is handled at a time, by the first request slot
Serial(r) ==
    /\ \A q \in Requests : pc[q] = "idle"
    /\ \A q \in Requests : r <= q

ReceiveSerial(r) ==
    /\ Serial(r)
    /\ \E v \in Views, key \in SystemKeys : Receive(r, v, key)

SystemsListSerial(r) == Serial(r) /\ SystemsListGet(r)

Upload(r) == \E file \in Files \cup {NoFile}, policy \in Policies :
                PostUpload(r, file, policy)

Delete(r) == \E selected \in SUBSET EntryNames : PostDelete(r, selected)

Next ==
    \E r \in Requests :
        \/ ReceiveSerial(r)
        \/ SystemsListSerial(r)
        \/ init_system(r)
        \/ Get(r)
        \/ Upload(r)
        \/ Delete(r)
        \/ Finish(r)

Spec == Init /\ [][Next]_vars


----------------------------------------------------------------------------
(* Requests handled concurrently: page views only, by any number of the    *)
(* request slots at once                                                   *)

ConcRoot == [MainRoot EXCEPT ![k_c] = "dir"]

InitConc ==
    /\ root = ConcRoot
    /\ roms = MainRoms
    /\ InitSettings
    /\ InitRequests
    /\ form_errors = <<>>
    /\ json_result = NoResponse

ReceiveAny(r) == \E v \in Views, key \in SystemKeys : Receive(r, v, key)

NextConc ==
    \E r \in Requests :
        \/ ReceiveAny(r)
        \/ init_system(r)
        \/ Get(r)
        \/ Finish(r)

SpecConc == InitConc /\ [][NextConc]_vars

----------------------------------------------------------------------------
(* The system list over every content of the ROMs root *)

InitSystems ==
    /\ root \in [SystemKeys -> Kinds]
    /\ roms = [key \in SystemKeys |-> EmptyDir]
    /\ InitSettings
    /\ InitRequests
    /\ form_errors = <<>>
    /\ json_result = NoResponse

NextSystems ==
    \E r \in Requests :
        \/ SystemsListSerial(r)
        \/ Finish(r)

SpecSystems == InitSystems /\ [][NextSystems]_vars

----------------------------------------------------------------------------
(* The rom list over every content of a system directory *)

InitRoms ==
    /\ root = MainRoot
    /\ \E d \in [EntryNames -> Entries] :
          roms = [key \in SystemKeys |->
                     IF MainRoot[key] = "dir" THEN d ELSE EmptyDir]
    /\ InitSettings
    /\ InitRequests
    /\ form_errors = <<>>
    /\ json_result = NoResponse

NextRoms ==
    \E r \in Requests :
        \/ ReceiveSerial(r)
        \/ init_system(r)
        \/ Get(r)
        \/ Finish(r)

SpecRoms == InitRoms /\ [][NextRoms]_vars

----------------------------------------------------------------------------
(* RomUploadJsonView.form_invalid over the errors two forms can carry *)

MaxMsgs == 2          \* messages attached to one field

Msgs == {m_required, m_extension, m_exists}
MsgLists(msgs) == UNION {[1..n -> msgs] : n \in 1..MaxMsgs}
\* the errors of a form: each field either has no entry or a list of messages
UploadErrors ==
    UNION {[D -> MsgLists(Msgs)] : D \in {{}, {"rom"}}} \cup
    {[field \in {"rom", "__all__"} |->
         IF field = "rom" THEN l ELSE <<m_exists>>] : l \in MsgLists(Msgs)} \cup
    {[field \in {"__all__"} |-> <<m_exists>>]}
DeleteErrors == UNION {[D -> MsgLists({m_choice})] : D \in SUBSET {"roms"}}

FormArgs ==
    {<<[form_key |-> "upload", errors |-> u],
       [form_key |-> "delete", errors |-> d]>> :
        u \in UploadErrors, d \in DeleteErrors}

InitInvalid ==
    /\ root = MainRoot
    /\ roms = MainRoms
    /\ InitSettings
    /\ InitRequests
    /\ form_errors \in FormArgs
    /\ json_result = NoResponse

\* an invalid submission reaches the JSON view
InvalidSubmission ==
    /\ json_result.kind # "none"
    /\ form_errors' \in FormArgs
    /\ json_result' = NoResponse
    /\ UNCHANGED <<root, roms, RECALBOX_MANIFEST, RECALBOX_SYSTEM_DEFAULT, pc,
                   view, system_key, system_manifest, response>>

FormInvalid ==
    /\ json_result.kind = "none"
    /\ \E u \in 1..Len(form_errors) : DOMAIN form_errors[u].errors # {}
    /\ json_result' = form_invalid(form_errors)
    /\ UNCHANGED <<root, roms, RECALBOX_MANIFEST, RECALBOX_SYSTEM_DEFAULT, pc,
                   view, system_key, system_manifest, response, form_errors>>

NextInvalid == InvalidSubmission \/ FormInvalid

SpecInvalid == InitInvalid /\ [][NextInvalid]_vars


----------------------------------------------------------------------------
(* Properties *)

Hidden(name) == Len(name) > 0 /\ name[1] = "."
Absent(key) == key \notin DOMAIN MANIFEST0
Elems(seq) == {seq[i] : i \in 1..Len(seq)}
Ascending(seq) == \A i, j \in 1..Len(seq) : i < j => str_lt(seq[i][1], seq[j][1])
\* the request slot r produces its response in this step
Responds(r) == pc[r] \in {"start", "inited"} /\ pc'[r] = "done"
Succeeded(resp) ==
    resp.kind = "redirect" \/ (resp.kind = "json" /\ resp.status = 200)
ValidationError(resp) ==
    \/ resp.kind = "json" /\ resp.status = 400
    \/ resp.kind = "page" /\ (DOMAIN resp.errors.upload # {} \/
                              DOMAIN resp.errors.delete # {})
\* the rom listings a directory can yield, as sets of pairs
Listings(d) == {Elems(get_rom_choices(d, items)) : items \in Orders(listdir(d))}

\* C1: when init_system has run for key k, the entry the request holds is
\* the manifest's configured entry if k is a manifest key, and otherwise has
\* name k, key k and the default template's other fields, whatever requests
\* came before.
C1_Lookup ==
    [][\A r \in Requests :
        (pc[r] = "start" /\ pc'[r] = "inited") =>
            LET k == system_key[r]
                e == deref(system_manifest'[r], k, RECALBOX_MANIFEST',
                           RECALBOX_SYSTEM_DEFAULT')
            IN IF k \in DOMAIN MANIFEST0
               THEN e = MANIFEST0[k] /\ e.name = MANIFEST0[k].name
               ELSE /\ e.name = k
                    /\ e.key = k
                    /\ e.extensions = DEFAULT0.extensions]_vars

\* a request on an unknown key holds the default entry under its own name
C1_Witness ==
    \E r \in Requests :
        /\ pc[r] = "inited"
        /\ system_key[r] = k_b
        /\ system_manifest[r] = "default"
        /\ entry(r).name = k_b
        /\ entry(r).key = k_b

\* C2: the manifest and the default template keep the contents they had at
\* process start, whatever requests are handled.
C2_SettingsUntouched ==
    /\ RECALBOX_MANIFEST = MANIFEST0
    /\ RECALBOX_SYSTEM_DEFAULT = DEFAULT0

\* C3: the system list holds exactly one pair for each non-hidden directory
\* of the ROMs root and none for any other entry, the display name being the
\* manifest's name for a manifest key and the key otherwise, in ascending
\* order of key.
C3_SystemList ==
    \A r \in Requests :
        response[r].kind = "systems" =>
            LET L == response[r].systems_list
                want == {k \in DOMAIN root : root[k] = "dir" /\ ~Hidden(k)}
            IN /\ {L[i][1] : i \in 1..Len(L)} = want
               /\ Len(L) = Cardinality(want)
               /\ \A i \in 1..Len(L) :
                     L[i][2] = IF L[i][1] \in DOMAIN MANIFEST0
                               THEN MANIFEST0[L[i][1]].name
                               ELSE L[i][1]
               /\ Ascending(L)

\* a root with a hidden directory and a regular file beside three systems,
\* listed by key although the display names sort the other way
C3_Witness ==
    \E r \in Requests :
        /\ response[r].kind = "systems"
        /\ root[k_hid] = "dir"
        /\ root[k_c] = "file"
        /\ response[r].systems_list =
              <<<<k_b, k_b>>, <<k_md, n_Sega>>, <<k_nes, n_NES>>>>
        /\ str_lt(n_NES, n_Sega)

\* C4: the rom choices hold exactly one pair (name, size) for each regular
\* non-hidden file of the system directory, none for a directory or a hidden
\* entry, each with the file's size, in ascending order of file name.
C4_RomChoices ==
    \A r \in Requests :
        response[r].kind = "page" =>
            LET L == response[r].romchoices
                d == roms[system_key[r]]
                want == {n \in DOMAIN d : d[n].kind = "file" /\ ~Hidden(n)}
            IN /\ {L[i][1] : i \in 1..Len(L)} = want
               /\ Len(L) = Cardinality(want)
               /\ \A i \in 1..Len(L) : L[i][2] = d[L[i][1]].size
               /\ Ascending(L)
               /\ response[r].context.total_roms = Cardinality(want)

\* a directory with two roms, a hidden file and a sub-directory
C4_Witness ==
    \E r \in Requests :
        /\ response[r].kind = "page"
        /\ roms[system_key[r]][f_hid].kind = "file"
        /\ roms[system_key[r]][f_dir].kind = "dir"
        /\ response[r].romchoices = <<<<f_as, 2>>, <<f_bz, 1>>>>

\* C5: a request whose key names a missing path, a path that is no
\* directory, or starts with '.', ends with 404 as its first and only step:
\* nothing is listed, written or removed.
C5_NotFoundFirst ==
    [][\A r \in Requests :
        (/\ pc[r] = "start"
         /\ pc'[r] # "start"
         /\ (root[system_key[r]] # "dir" \/ Hidden(system_key[r])))
        => /\ pc'[r] = "done"
           /\ response'[r].kind = "notfound"
           /\ response'[r].status = 404
           /\ response'[r].romchoices = <<>>
           /\ roms' = roms
           /\ root' = root]_vars

\* the hidden directory exists and is answered with 404
C5_Witness ==
    \E r \in Requests :
        /\ pc[r] = "done"
        /\ system_key[r] = k_hid
        /\ root[k_hid] = "dir"
        /\ response[r].status = 404

\* C6: a delete submission selecting a name that is not among the rom
\* choices gets a validation error and removes nothing, the valid names
\* included: the listing is the same before and after.
C6_UnknownDeleteRejected ==
    [][\A r \in Requests :
        (Responds(r) /\ response'[r].request.form = "delete") =>
            LET before == Listings(roms[system_key[r]])
                after == Listings(roms'[system_key[r]])
                listed == UNION {{p[1] : p \in L} : L \in before}
            IN (\E n \in response'[r].request.selected : n \notin listed)
               => /\ ValidationError(response'[r])
                  /\ after = before]_vars

\* a submission naming a listed rom and a hidden file, refused, both files
\* still there
C6_Witness ==
    \E r \in Requests :
        /\ pc[r] = "done"
        /\ response[r].request.form = "delete"
        /\ response[r].request.selected = {f_as, f_hid}
        /\ roms[system_key[r]][f_as].kind = "file"
        /\ roms[system_key[r]][f_hid].kind = "file"
        /\ ValidationError(response[r])

\* C7: the JSON answer to an invalid submission has a 4xx status and the
\* body {"error": m}, m being the single message of the upload form's 'rom'
\* field, or all of them joined, or the unknown-error text when that field
\* has none; no other field and no other form contributes.
C7_JsonError ==
    json_result.kind = "json" =>
        LET errs == form_errors[1].errors
        IN /\ json_result.status \in 400..499
           /\ json_result.body.key = "error"
           /\ json_result.body.value =
                 IF "rom" \notin DOMAIN errs THEN m_unknown
                 ELSE IF Len(errs["rom"]) = 1 THEN errs["rom"][1]
                 ELSE join(<<"\n">>, errs["rom"])

\* two messages on 'rom', with errors on another field and on the delete
\* form
C7_Witness ==
    /\ json_result.kind = "json"
    /\ form_errors[1].form_key = "upload"
    /\ DOMAIN form_errors[1].errors = {"rom", "__all__"}
    /\ DOMAIN form_errors[2].errors = {"roms"}
    /\ form_errors[1].errors["rom"] = <<m_extension, m_required>>
    /\ json_result.body.value = m_extension \o <<"\n">> \o m_required

\* C8: a request served by the JSON view removes no rom file of the system
\* directory.
C8_JsonNeverDeletes ==
    [][\A r \in Requests :
        (Responds(r) /\ view[r] = "json") =>
            \A n \in EntryNames :
                roms[system_key[r]][n].kind = "file" =>
                    roms'[system_key[r]][n].kind = "file"]_vars

C10_OwnEntry ==
    \A r \in Requests :
        Absent(system_key[r]) =>
            /\ pc[r] = "inited" =>
                  entry(r).name = system_key[r] /\ entry(r).key = system_key[r]
            /\ response[r].kind = "page" =>
                  /\ response[r].context.system_name = system_key[r]
                  /\ response[r].context.system_manifest.key = system_key[r]

====
